---- MODULE Spec2Model ----
(***************************************************************************)
(* Model of src/command_db.rs: the instruction database (GameDB), its      *)
(* instruction records (Function), the named-value registry (a BiMap) and  *)
(* the argument layout decoder (Function::get_args).                       *)
(*                                                                         *)
(* Strings that are only compared or concatenated (names, error payloads)  *)
(* are TLA+ strings.  The argument descriptor is scanned byte by byte, so  *)
(* it is a sequence of byte values (String::as_bytes).                     *)
(***************************************************************************)
EXTENDS Integers, Sequences, FiniteSets, TLC

VARIABLES
    source,   \* the game asked for and its configuration source as found on disk
    db,       \* the GameDB held by the caller: [loaded, functions]
    ret       \* the last call and what it returned

vars == <<source, db, ret>>

(***************************************************************************)
(* Bounds of the model.                                                    *)
(***************************************************************************)
MaxPieces == 3       \* most pieces (bytes or whole tokens) of a descriptor
MaxSize == 21        \* largest declared size of the contiguous range of sizes
MaxFunctions == 3    \* most records of a database
MaxEntries == 2      \* most named_values entries declared for a record

(***************************************************************************)
(* Program constants.                                                      *)
(***************************************************************************)
Half == 65536        \* 2^16: a u32 (id, size, size_of_args) as two 16-bit halves
b_i == 105           \* b'i'
b_1 == 49            \* b'1'
b_6 == 54            \* b'6'
b_s == 115           \* b's'
b_3 == 51            \* b'3'
b_2 == 50            \* b'2'
DB_FOLDER == <<"s", "t", "a", "t", "i", "c", "_", "d", "b">>

(***************************************************************************)
(* enum Arg and enum CodeBlock.                                            *)
(***************************************************************************)
ArgInt == [tag |-> "Int"]
ArgString16 == [tag |-> "String16"]
ArgString32 == [tag |-> "String32"]
ArgUnknown(n) == [tag |-> "Unknown", n |-> n]

CodeBlock == {"Begin", "BeginJumpEntry", "End", "NoBlock"}

(***************************************************************************)
(* Option and Result values.                                               *)
(***************************************************************************)
Some(x) == <<"Some", x>>
None == <<"None">>

(***************************************************************************)
(* Formatting: u32::to_string (decimal) and format!("{:#X}") (0x and       *)
(* upper-case hexadecimal digits, no padding).                             *)
(***************************************************************************)
Digits == <<"0", "1", "2", "3", "4", "5", "6", "7", "8", "9",
            "A", "B", "C", "D", "E", "F">>

RECURSIVE to_string(_)
to_string(n) ==
    IF n < 10 THEN Digits[n + 1]
    ELSE to_string(n \div 10) \o Digits[(n % 10) + 1]

RECURSIVE UpperHex(_)
UpperHex(n) ==
    IF n < 16 THEN Digits[n + 1]
    ELSE UpperHex(n \div 16) \o Digits[(n % 16) + 1]

AltUpperHex(n) == "0x" \o UpperHex(n)

(***************************************************************************)
(* BiMap<(u32, i32), (u32, String)>: a set of <<left, right>> pairs in     *)
(* which no two pairs share a left and no two share a right.  Inserting a  *)
(* pair evicts the pairs that hold its left or its right; deserialization  *)
(* inserts the declared entries in order.                                  *)
(***************************************************************************)
BiMapInsert(m, l, r) ==
    {p \in m : p[1] # l /\ p[2] # r} \cup {<<l, r>>}

RECURSIVE BiMapFromEntries(_, _)
BiMapFromEntries(m, entries) ==
    IF entries = <<>> THEN m
    ELSE BiMapFromEntries(BiMapInsert(m, Head(entries)[1], Head(entries)[2]),
                          Tail(entries))

get_by_right(m, r) ==
    IF \E p \in m : p[2] = r
    THEN Some((CHOOSE p \in m : p[2] = r)[1])
    ELSE None

get_by_left(m, l) ==
    IF \E p \in m : p[1] = l
    THEN Some((CHOOSE p \in m : p[1] = l)[2])
    ELSE None

(***************************************************************************)
(* GameDB::new: the path of the source, and the deserialization of one     *)
(* declared record (camelCase fields) into a Function.                     *)
(***************************************************************************)
\* Paths and game names are sequences of one-character strings; the
\* separator is "/" (a Unix path).

\* PathBuf::push: an absolute p replaces the path; otherwise a separator is
\* added unless the path is empty or already ends with one, and p follows
\* (so pushing the empty name leaves a trailing separator).
PathPush(path, p) ==
    IF p # <<>> /\ p[1] = "/" THEN p
    ELSE IF path # <<>> /\ path[Len(path)] # "/" THEN path \o <<"/">> \o p
    ELSE path \o p

\* The end of the last component of path[1..e] as Path::components yields
\* it from the back: trailing separators and "." components are passed
\* over.  0 when only the root (or nothing) is left.
RECURSIVE LastComponentEnd(_, _)
LastComponentEnd(path, e) ==
    IF e = 0 THEN 0
    ELSE IF path[e] = "/" THEN LastComponentEnd(path, e - 1)
    ELSE IF path[e] = "." /\ (e = 1 \/ path[e - 1] = "/")
    THEN LastComponentEnd(path, e - 1)
    ELSE e

\* The start of the component that ends at e.
RECURSIVE ComponentStart(_, _)
ComponentStart(path, e) ==
    IF e = 1 \/ path[e - 1] = "/" THEN e ELSE ComponentStart(path, e - 1)

\* The position of the last "." in path[s..e], 0 if there is none.
RECURSIVE LastDot(_, _, _)
LastDot(path, s, e) ==
    IF e < s THEN 0
    ELSE IF path[e] = "." THEN e
    ELSE LastDot(path, s, e - 1)

\* PathBuf::set_extension: nothing changes when the path has no file name
\* (it ends in the root or in ".."); otherwise the path is cut right after
\* the file stem and "." and the extension are appended.  The stem is the
\* file name up to its last ".", or the whole file name when it has no "."
\* or only a leading one.
PathSetExtension(path, extension) ==
    LET e == LastComponentEnd(path, Len(path))
        s == ComponentStart(path, e)
        dot == LastDot(path, s, e)
        stem_end == IF dot = 0 \/ dot = s THEN e ELSE dot - 1
    IN  IF e = 0 THEN path
        ELSE IF SubSeq(path, s, e) = <<".", ".">> THEN path
        ELSE SubSeq(path, 1, stem_end) \o <<".">> \o extension

\* format!("{}", path.display()).
RECURSIVE Display(_)
Display(path) ==
    IF path = <<>> THEN "" ELSE Head(path) \o Display(Tail(path))

\* cmd_db_path of GameDB::new.
DbPath(game) ==
    PathSetExtension(PathPush(DB_FOLDER, game), <<"r", "o", "n">>)

\* The game names the caller may pass.
Game == <<"g", "a", "m", "e">>
Games == {Game} \cup UNION {[1..n -> {"a", ".", "/"}] : n \in 0..3}

DeserializeFunction(d) ==
    [id |-> d.id, size |-> d.size, args |-> d.args, name |-> d.name,
     code_block |-> d.codeBlock,
     named_values |-> BiMapFromEntries({}, d.namedValues)]

DeserializeFunctions(decls) ==
    [k \in 1..Len(decls) |-> DeserializeFunction(decls[k])]

(***************************************************************************)
(* GameDB::find_by_id and GameDB::find_by_name.  Iterator::find returns    *)
(* the first element, in order, that satisfies the predicate.  The         *)
(* returned &Function is the position of the record in functions.          *)
(***************************************************************************)
\* Mutant of FindId: keeps scanning and returns the last match.
RECURSIVE FindIdLast(_, _, _)
FindIdLast(functions, k, id_in) ==
    IF k > Len(functions) THEN None
    ELSE LET later == FindIdLast(functions, k + 1, id_in)
         IN  IF later # None THEN later
             ELSE IF functions[k].id = id_in THEN Some(k) ELSE None

RECURSIVE FindId(_, _, _)
FindId(functions, k, id_in) ==
    IF k > Len(functions) THEN None
    ELSE IF functions[k].id = id_in THEN Some(k)
    ELSE FindId(functions, k + 1, id_in)

find_by_id(functions, id_in) ==
    LET func == FindId(functions, 1, id_in)
    IN  IF func # None
        THEN [status |-> "Ok", value |-> func[2]]
        ELSE [status |-> "Err",
              value |-> <<"UnknownFunction", AltUpperHex(id_in)>>]

\* Mutant of FindName: the predicate is negated.
RECURSIVE FindNameNegated(_, _, _)
FindNameNegated(functions, k, name_in) ==
    IF k > Len(functions) THEN None
    ELSE IF functions[k].name # name_in THEN Some(k)
    ELSE FindNameNegated(functions, k + 1, name_in)

RECURSIVE FindName(_, _, _)
FindName(functions, k, name_in) ==
    IF k > Len(functions) THEN None
    ELSE IF functions[k].name = name_in THEN Some(k)
    ELSE FindName(functions, k + 1, name_in)

find_by_name(functions, name_in) ==
    LET func == FindName(functions, 1, name_in)
    IN  IF func # None
        THEN [status |-> "Ok", value |-> func[2]]
        ELSE [status |-> "Err", value |-> <<"UnknownFunction", name_in>>]

(***************************************************************************)
(* Function::get_value, Function::get_name, Function::instruction_name,    *)
(* Function::is_jump_entry.                                                *)
(***************************************************************************)
\* Mutant of get_value: returns the slot of the bound key, not its raw value.
get_value_slot(f, name) ==
    LET value == get_by_right(f.named_values, name)
    IN  IF value # None
        THEN [status |-> "Ok", value |-> value[2][1]]
        ELSE [status |-> "Err",
              value |-> <<"NoAssociatedValue", to_string(name[1]), name[2]>>]

\* Mutant of get_value: an unbound name yields a default value.
get_value_default(f, name) ==
    LET value == get_by_right(f.named_values, name)
    IN  IF value # None
        THEN [status |-> "Ok", value |-> value[2][2]]
        ELSE [status |-> "Ok", value |-> 0]

get_value(f, name) ==
    LET value == get_by_right(f.named_values, name)
    IN  IF value # None
        THEN [status |-> "Ok", value |-> value[2][2]]
        ELSE [status |-> "Err",
              value |-> <<"NoAssociatedValue", to_string(name[1]), name[2]>>]

get_name(f, value) ==
    LET found == get_by_left(f.named_values, value)
    IN  IF found # None THEN Some(found[2][2]) ELSE None

\* Mutant of instruction_name: no synthetic name for an empty name.
instruction_name_raw(f) == f.name

instruction_name(f) ==
    IF f.name = "" THEN "Unknown" \o to_string(f.id) ELSE f.name

is_jump_entry(f) == f.code_block = "BeginJumpEntry"
(***************************************************************************)
(* Function::get_args.  Scan is the while loop: the slice patterns are     *)
(* tried in the order of the match arms, and the loop ends when the slice  *)
(* is empty.  It yields the locals at the exit of the loop.                *)
(* size_of_args is a u32; within the bounds of the model (at most          *)
(* 32 * MaxPieces) its additions cannot overflow.                          *)
(***************************************************************************)
Rest(arg_string, n) == SubSeq(arg_string, n + 1, Len(arg_string))

StartsWith3(arg_string, x, y, z) ==
    /\ Len(arg_string) >= 3
    /\ arg_string[1] = x
    /\ arg_string[2] = y
    /\ arg_string[3] = z

\* Mutant of Scan: the 16s arm does not look at its third byte.
RECURSIVE ScanLoose16(_, _, _)
ScanLoose16(arg_string, arg_accumulator, size_of_args) ==
    IF arg_string = <<>>
    THEN [arg_string |-> arg_string, arg_accumulator |-> arg_accumulator,
          size_of_args |-> size_of_args]
    ELSE IF arg_string[1] = b_i
    THEN ScanLoose16(Rest(arg_string, 1), Append(arg_accumulator, ArgInt),
                     size_of_args + 4)
    ELSE IF Len(arg_string) >= 3 /\ arg_string[1] = b_1 /\ arg_string[2] = b_6
    THEN ScanLoose16(Rest(arg_string, 3),
                     Append(arg_accumulator, ArgString16), size_of_args + 16)
    ELSE IF StartsWith3(arg_string, b_3, b_2, b_s)
    THEN ScanLoose16(Rest(arg_string, 3),
                     Append(arg_accumulator, ArgString32), size_of_args + 32)
    ELSE ScanLoose16(Rest(arg_string, 1), arg_accumulator, size_of_args)

RECURSIVE Scan(_, _, _)
Scan(arg_string, arg_accumulator, size_of_args) ==
    IF arg_string = <<>>
    THEN [arg_string |-> arg_string, arg_accumulator |-> arg_accumulator,
          size_of_args |-> size_of_args]
    ELSE IF arg_string[1] = b_i
    THEN Scan(Rest(arg_string, 1), Append(arg_accumulator, ArgInt),
              size_of_args + 4)
    ELSE IF StartsWith3(arg_string, b_1, b_6, b_s)
    THEN Scan(Rest(arg_string, 3), Append(arg_accumulator, ArgString16),
              size_of_args + 16)
    ELSE IF StartsWith3(arg_string, b_3, b_2, b_s)
    THEN Scan(Rest(arg_string, 3), Append(arg_accumulator, ArgString32),
              size_of_args + 32)
    ELSE Scan(Rest(arg_string, 1), arg_accumulator, size_of_args)

\* A u32 as <<high half, low half>>, each in 0..Half-1 (2^32 does not fit
\* the 32-bit signed integers of TLC).
U32(n) == <<n \div Half, n % Half>>

\* a - b on u32 when it does not abort: the difference modulo 2^32.
\* For a < b that is 2^32 - (b - a) = (2^32 - 1) - (b - a - 1).
WrappingSub(a, b) ==
    IF a >= b THEN U32(a - b)
    ELSE <<(Half - 1) - ((b - a - 1) \div Half),
           (Half - 1) - ((b - a - 1) % Half)>>

\* x < y on u32.
LtU32(x, y) == x[1] < y[1] \/ (x[1] = y[1] /\ x[2] < y[2])

\* Mutant of Pad: the comparison is <= instead of <.
PadLe(f, s, overflow_checks) ==
    IF f.size < 4 /\ overflow_checks
    THEN [status |-> "Panic", value |-> <<>>]
    ELSE IF ~LtU32(WrappingSub(f.size, 4), U32(s.size_of_args))
    THEN IF f.size >= 4
         THEN [status |-> "Ok",
               value |-> Append(s.arg_accumulator,
                                ArgUnknown(f.size - s.size_of_args - 4))]
         ELSE [status |-> "Ok", value |-> s.arg_accumulator]
    ELSE [status |-> "Ok", value |-> s.arg_accumulator]

\* Mutant of Pad: the left-over forgets the 4 header bytes.
PadNoHeader(f, s, overflow_checks) ==
    IF f.size < 4 /\ overflow_checks
    THEN [status |-> "Panic", value |-> <<>>]
    ELSE IF LtU32(U32(s.size_of_args), WrappingSub(f.size, 4))
    THEN IF f.size >= 4
         THEN [status |-> "Ok",
               value |-> Append(s.arg_accumulator,
                                ArgUnknown(f.size - s.size_of_args))]
         ELSE [status |-> "Ok", value |-> s.arg_accumulator]
    ELSE [status |-> "Ok", value |-> s.arg_accumulator]

\* The padding step after the loop, for the locals s of the loop's exit.
\* self.size - 4 underflows when size < 4: the build aborts there with
\* "attempt to subtract with overflow" when overflow checks are compiled in
\* (the default of a debug build) and wraps around when they are not (the
\* default of a release build).
Pad(f, s, overflow_checks) ==
    IF f.size < 4 /\ overflow_checks
    THEN [status |-> "Panic", value |-> <<>>]
    ELSE IF LtU32(U32(s.size_of_args), WrappingSub(f.size, 4))
    THEN IF f.size >= 4
         THEN [status |-> "Ok",
               value |-> Append(s.arg_accumulator,
                                ArgUnknown(f.size - s.size_of_args - 4))]
         ELSE [status |-> "Ok", value |-> s.arg_accumulator]
    ELSE [status |-> "Ok", value |-> s.arg_accumulator]

get_args(f, overflow_checks) ==
    Pad(f, Scan(f.args, <<>>, 0), overflow_checks)

(***************************************************************************)
(* The configuration sources of the model: what the path of the game is on *)
(* disk.  It cannot be opened (File::open fails), is a directory           *)
(* (File::open succeeds and the read fails), is a file that is not valid   *)
(* RON for a GameDB, or is a file that declares a sequence of records.     *)
(***************************************************************************)
Alphabet == {b_i, b_1, b_6, b_s, b_3, b_2, 44}

\* A descriptor is made of up to MaxPieces pieces, each one byte of the
\* alphabet or a whole 16s or 32s: every byte string of up to MaxPieces
\* bytes, and longer ones that put tokens and bytes before and after the
\* 3-byte tokens (i16s, 16s32si, 1616s, ...).
Pieces == {<<b>> : b \in Alphabet} \cup {<<b_1, b_6, b_s>>, <<b_3, b_2, b_s>>}

RECURSIVE Flatten(_)
Flatten(pieces) ==
    IF pieces = <<>> THEN <<>> ELSE Head(pieces) \o Flatten(Tail(pieces))

Descriptors ==
    {Flatten(ps) : ps \in UNION {[1..n -> Pieces] : n \in 0..MaxPieces}}

\* Declared sizes: every small size, and the sizes that leave room after a
\* 16 or 32 byte string.
Sizes == (0..MaxSize) \cup {24, 36, 40, 44}

Ids == {0, 10, 255}
Names == {"", "a", "b"}

Slots == 0..1
RawValues == {-1, 3}
ValueNames == {"A", "B"}
Entries == {<<<<s1, v>>, <<s2, n>>>> :
                s1 \in Slots, v \in RawValues, s2 \in Slots, n \in ValueNames}

Decl(id, size, args, name, entries) ==
    [id |-> id, size |-> size, args |-> args, name |-> name,
     codeBlock |-> "NoBlock", namedValues |-> entries]

SeqsUpTo(S, n) == UNION {[1..m -> S] : m \in 0..n}

\* The path has a file name (set_extension changed it), so a regular file
\* can be there; a path that ends in the root or in ".." names a directory
\* if it names anything.
HasFileName(game) == DbPath(game) # PathPush(DB_FOLDER, game)

\* The sources GameDB::new fails on.  File::open can fail on any path
\* (nothing there, or no permission, or no descriptor left), and any path
\* may name a directory.
NoSource ==
    {[kind |-> "OpenFails", game |-> game, functions |-> <<>>] :
        game \in Games}
    \cup {[kind |-> "Directory", game |-> game, functions |-> <<>>] :
        game \in Games}
    \cup {[kind |-> "Malformed", game |-> game, functions |-> <<>>] :
        game \in {g \in Games : HasFileName(g)}}

\* One record whose descriptor and declared size vary.
ArgsSources ==
    {[kind |-> "Ok", game |-> Game,
      functions |-> <<Decl(1, size, args, "f", <<>>)>>] :
        size \in Sizes, args \in Descriptors}

\* Up to MaxFunctions records whose ids and names vary.
DBSources ==
    {[kind |-> "Ok", game |-> Game, functions |-> fs] :
        fs \in SeqsUpTo({Decl(id, 4, <<>>, name, <<>>) :
                            id \in Ids, name \in Names}, MaxFunctions)}

\* One record whose declared named values vary.
NVSources ==
    {[kind |-> "Ok", game |-> Game,
      functions |-> <<Decl(1, 12, args, "f", entries)>>] :
        args \in {<<>>, <<b_i>>, <<b_i, b_i>>},
        entries \in SeqsUpTo(Entries, MaxEntries)}

InitWith(sources) ==
    /\ source \in NoSource \cup sources
    /\ db = [loaded |-> FALSE, functions |-> <<>>]
    /\ ret = [op |-> "none"]

InitArgs == InitWith(ArgsSources)
InitDB == InitWith(DBSources)
InitNV == InitWith(NVSources)

(***************************************************************************)
(* Actions: one per operation.  The database is loaded once and is         *)
(* read-only afterwards.                                                   *)
(***************************************************************************)
Load ==
    /\ ~db.loaded
    /\ IF source.kind = "OpenFails"
       THEN /\ ret' = [op |-> "new", status |-> "Err",
                       value |-> <<"GameDBNotFound",
                                   Display(DbPath(source.game))>>]
            /\ UNCHANGED db
       ELSE IF source.kind = "Directory"
       THEN /\ ret' = [op |-> "new", status |-> "Err",
                       value |-> <<"ron::Error", "Io">>]
            /\ UNCHANGED db
       ELSE IF source.kind = "Malformed"
       THEN /\ ret' = [op |-> "new", status |-> "Err",
                       value |-> <<"ron::Error", "Parse">>]
            /\ UNCHANGED db
       ELSE /\ db' = [loaded |-> TRUE,
                      functions |-> DeserializeFunctions(source.functions)]
            /\ ret' = [op |-> "new", status |-> "Ok", value |-> <<>>]
    /\ UNCHANGED source

FindById ==
    /\ db.loaded
    /\ \E id_in \in Ids :
          LET r == find_by_id(db.functions, id_in)
          IN  ret' = [op |-> "find_by_id", arg |-> id_in,
                      status |-> r.status, value |-> r.value]
    /\ UNCHANGED <<source, db>>

FindByName ==
    /\ db.loaded
    /\ \E name_in \in Names :
          LET r == find_by_name(db.functions, name_in)
          IN  ret' = [op |-> "find_by_name", arg |-> name_in,
                      status |-> r.status, value |-> r.value]
    /\ UNCHANGED <<source, db>>

InstructionName ==
    /\ db.loaded
    /\ \E k \in 1..Len(db.functions) :
          ret' = [op |-> "instruction_name", k |-> k,
                  status |-> "Ok", value |-> instruction_name(db.functions[k])]
    /\ UNCHANGED <<source, db>>

GetValue ==
    /\ db.loaded
    /\ \E k \in 1..Len(db.functions), slot \in Slots, name \in ValueNames :
          LET r == get_value(db.functions[k], <<slot, name>>)
          IN  ret' = [op |-> "get_value", k |-> k, arg |-> <<slot, name>>,
                      status |-> r.status, value |-> r.value]
    /\ UNCHANGED <<source, db>>

GetName ==
    /\ db.loaded
    /\ \E k \in 1..Len(db.functions), slot \in Slots, raw \in RawValues :
          ret' = [op |-> "get_name", k |-> k, arg |-> <<slot, raw>>,
                  status |-> "Ok",
                  value |-> get_name(db.functions[k], <<slot, raw>>)]
    /\ UNCHANGED <<source, db>>

\* get_args on record k.  scan holds the locals at the exit of the loop,
\* which is reached whether or not the padding step then aborts.
GetArgs ==
    /\ db.loaded
    /\ \E k \in 1..Len(db.functions), overflow_checks \in BOOLEAN :
          LET r == get_args(db.functions[k], overflow_checks)
          IN  ret' = [op |-> "get_args", k |-> k,
                      scan |-> Scan(db.functions[k].args, <<>>, 0),
                      status |-> r.status, value |-> r.value]
    /\ UNCHANGED <<source, db>>

NextArgs == Load \/ GetArgs
NextDB == Load \/ FindById \/ FindByName \/ InstructionName
NextNV == Load \/ GetValue \/ GetName \/ GetArgs

SpecArgs == InitArgs /\ [][NextArgs]_vars
SpecDB == InitDB /\ [][NextDB]_vars
SpecNV == InitNV /\ [][NextNV]_vars
(***************************************************************************)
(* Definitions the properties are stated with.                             *)
(***************************************************************************)
\* The record the last call was made on.
F == db.functions[ret.k]

IsTyped(a) == a.tag # "Unknown"
Typed(specs) == SelectSeq(specs, IsTyped)

\* Bytes of layout space of one spec: Int 4, String16 16, String32 32,
\* Unknown(n) n.
ArgBytes(a) ==
    IF a.tag = "Int" THEN 4
    ELSE IF a.tag = "String16" THEN 16
    ELSE IF a.tag = "String32" THEN 32
    ELSE a.n

RECURSIVE SumBytes(_)
SumBytes(specs) ==
    IF specs = <<>> THEN 0 ELSE ArgBytes(Head(specs)) + SumBytes(Tail(specs))

\* The token that starts at position p of descriptor d, if any.
TokenAt(d, p) ==
    IF d[p] = 105 THEN <<ArgInt>>
    ELSE IF p + 2 <= Len(d) /\ <<d[p], d[p + 1], d[p + 2]>> = <<49, 54, 115>>
    THEN <<ArgString16>>
    ELSE IF p + 2 <= Len(d) /\ <<d[p], d[p + 1], d[p + 2]>> = <<51, 50, 115>>
    THEN <<ArgString32>>
    ELSE <<>>

\* The reference tokenizer: a cursor p that advances 1 past an i or an
\* unrecognised byte and 3 past a 16s or a 32s.
RECURSIVE RefTokens(_, _)
RefTokens(d, p) ==
    IF p > Len(d) THEN <<>>
    ELSE LET t == TokenAt(d, p)
         IN  t \o RefTokens(d, IF t # <<>> /\ t # <<ArgInt>> THEN p + 3 ELSE p + 1)

\* The tokens found at the positions of d, every position looked at.
RECURSIVE TokensAtAllPositions(_, _)
TokensAtAllPositions(d, p) ==
    IF p > Len(d) THEN <<>>
    ELSE TokenAt(d, p) \o TokensAtAllPositions(d, p + 1)

(***************************************************************************)
(* C1: for a declared size >= 4, get_args returns the typed specs of the   *)
(* scan followed by exactly one Unknown(size - consumed - 4) when          *)
(* consumed < size - 4, and the typed specs alone otherwise, where         *)
(* consumed is 4 per Int, 16 per String16 and 32 per String32 emitted.     *)
(***************************************************************************)
C1_PaddingRule ==
    (ret.op = "get_args" /\ F.size >= 4) =>
        LET typed == ret.scan.arg_accumulator
            consumed == SumBytes(typed)
        IN  /\ ret.status = "Ok"
            /\ \A i \in 1..Len(typed) : IsTyped(typed[i])
            /\ IF consumed < F.size - 4
               THEN ret.value = Append(typed, ArgUnknown(F.size - consumed - 4))
               ELSE ret.value = typed

\* "i" with size 20 gave [Int, Unknown(12)].
C1_Witness ==
    /\ ret.op = "get_args"
    /\ F.args = <<b_i>> /\ F.size = 20
    /\ ret.value = <<ArgInt, ArgUnknown(12)>>

(***************************************************************************)
(* C2: for a declared size below 4, get_args completes without aborting    *)
(* and returns exactly the typed specs of the descriptor, with no Unknown. *)
(***************************************************************************)
C2_SmallSizeNeverFails ==
    (ret.op = "get_args" /\ F.size < 4) =>
        /\ ret.status = "Ok"
        /\ ret.value = ret.scan.arg_accumulator

(***************************************************************************)
(* C3: the scan ends with the whole descriptor consumed, and what it       *)
(* emitted is what the reference tokenizer emits: Int for an i, String16   *)
(* for a 16s, String32 for a 32s, nothing for any other byte, in           *)
(* descriptor order.  No token is hidden by the cursor's 3-byte advances.  *)
(***************************************************************************)
C3_ScanIsReferenceTokenizer ==
    (ret.op = "get_args") =>
        /\ ret.scan.arg_string = <<>>
        /\ ret.scan.arg_accumulator = RefTokens(F.args, 1)
        /\ ret.scan.arg_accumulator = TokensAtAllPositions(F.args, 1)
        /\ ret.status = "Ok" => Typed(ret.value) = RefTokens(F.args, 1)

\* "16si32s": three token kinds in descriptor order, the scan going on
\* after a 3-byte advance.
C3_Witness ==
    /\ ret.op = "get_args"
    /\ F.args = <<b_1, b_6, b_s, b_i, b_3, b_2, b_s>>
    /\ ret.scan.arg_accumulator = <<ArgString16, ArgInt, ArgString32>>
    /\ ret.scan.arg_string = <<>>

(***************************************************************************)
(* C10: when get_args returns, an Unknown appears only as the last spec    *)
(* (so at most once) and only with n >= 1; and when size >= 4 and          *)
(* consumed <= size - 4, the byte sizes of the specs sum to size - 4.      *)
(***************************************************************************)
C10_SizesSumToDeclared ==
    (ret.op = "get_args" /\ ret.status = "Ok") =>
        /\ \A i \in 1..Len(ret.value) :
              ret.value[i].tag = "Unknown" =>
                  i = Len(ret.value) /\ ret.value[i].n >= 1
        /\ (F.size >= 4 /\ SumBytes(Typed(ret.value)) <= F.size - 4) =>
              SumBytes(ret.value) = F.size - 4

\* "16s" with size 40 gave [String16, Unknown(20)].
C10_Witness ==
    /\ ret.op = "get_args" /\ ret.status = "Ok"
    /\ F.args = <<b_1, b_6, b_s>> /\ F.size = 40
    /\ ret.value = <<ArgString16, ArgUnknown(20)>>
(***************************************************************************)
(* C4: whenever get_value succeeds on (slot, name), get_name on the same   *)
(* slot and the returned raw value gives back that name.                   *)
(***************************************************************************)
C4_RoundTrip ==
    (ret.op = "get_value" /\ ret.status = "Ok") =>
        get_name(F, <<ret.arg[1], ret.value>>) = Some(ret.arg[2])

\* The entry of record f that binds the key name = <<slot, name>>.
EntryOf(f, name) == CHOOSE p \in f.named_values : p[2] = name

\* C4 as amended: whenever get_value succeeds on (slot, name) and the entry
\* that binds (slot, name) pairs it with a raw-value key of the same slot,
\* get_name on that slot and the returned raw value gives back that name.
C4_RoundTripSameSlot ==
    (/\ ret.op = "get_value" /\ ret.status = "Ok"
     /\ EntryOf(F, ret.arg)[1][1] = ret.arg[1]) =>
        get_name(F, <<ret.arg[1], ret.value>>) = Some(ret.arg[2])

\* get_value succeeded on an entry of one slot, in a registry of two entries.
C4_Witness ==
    /\ ret.op = "get_value" /\ ret.status = "Ok"
    /\ Cardinality(F.named_values) = 2
    /\ EntryOf(F, ret.arg)[1][1] = ret.arg[1]
    /\ ret.value = 3
    /\ get_name(F, <<ret.arg[1], 3>>) = Some(ret.arg[2])

(***************************************************************************)
(* C5: get_value on a (slot, name) that no entry binds returns the error   *)
(* NoAssociatedValue carrying the slot (in decimal) and the name, never a  *)
(* value; get_name on a (slot, raw value) that no entry binds returns      *)
(* none, and is never an error.                                            *)
(***************************************************************************)
C5_UnboundLookups ==
    /\ (ret.op = "get_value" /\ ~\E p \in F.named_values : p[2] = ret.arg) =>
          /\ ret.status = "Err"
          /\ ret.value = <<"NoAssociatedValue",
                           IF ret.arg[1] = 0 THEN "0" ELSE "1", ret.arg[2]>>
    /\ (ret.op = "get_name") =>
          /\ ret.status = "Ok"
          /\ (~\E p \in F.named_values : p[1] = ret.arg) => ret.value = None

\* get_value failed for a name that is bound, but under the other slot.
C5_Witness ==
    /\ ret.op = "get_value" /\ ret.status = "Err"
    /\ ret.arg = <<1, "A">>
    /\ \E p \in F.named_values : p[2] = <<0, "A">>
    /\ ret.value = <<"NoAssociatedValue", "1", "A">>

(***************************************************************************)
(* C9: every entry of a loaded record's named_values names, in both of     *)
(* its keys, a slot index below the number of specs get_args returns for   *)
(* the record.                                                             *)
(***************************************************************************)
C9_SlotsAreValid ==
    db.loaded =>
        \A k \in 1..Len(db.functions) :
            \A p \in db.functions[k].named_values :
                /\ p[1][1] < Len(get_args(db.functions[k], FALSE).value)
                /\ p[2][1] < Len(get_args(db.functions[k], FALSE).value)

(***************************************************************************)
(* C6: find_by_id returns the first record, in declaration order, whose    *)
(* id is the requested one, also when several records have it, and fails   *)
(* with UnknownFunction carrying the id (as 0x and upper-case hexadecimal) *)
(* exactly when no record has it; find_by_name does the same by name, the  *)
(* error carrying the name.                                                *)
(***************************************************************************)
HexOf(id) == IF id = 0 THEN "0x0" ELSE IF id = 10 THEN "0xA" ELSE "0xFF"

C6_FirstMatch ==
    /\ (ret.op = "find_by_id") =>
          LET M == {k \in 1..Len(db.functions) : db.functions[k].id = ret.arg}
          IN  IF M = {}
              THEN /\ ret.status = "Err"
                   /\ ret.value = <<"UnknownFunction", HexOf(ret.arg)>>
              ELSE /\ ret.status = "Ok"
                   /\ ret.value \in M
                   /\ \A k \in M : ret.value <= k
    /\ (ret.op = "find_by_name") =>
          LET M == {k \in 1..Len(db.functions) : db.functions[k].name = ret.arg}
          IN  IF M = {}
              THEN /\ ret.status = "Err"
                   /\ ret.value = <<"UnknownFunction", ret.arg>>
              ELSE /\ ret.status = "Ok"
                   /\ ret.value \in M
                   /\ \A k \in M : ret.value <= k

\* Records 2 and 3 share id 10 and differ in name; find_by_id(10) gave 2.
C6_Witness ==
    /\ ret.op = "find_by_id" /\ ret.arg = 10 /\ ret.status = "Ok"
    /\ Len(db.functions) = 3
    /\ db.functions[1].id = 255
    /\ db.functions[2].id = 10 /\ db.functions[3].id = 10
    /\ db.functions[2].name # db.functions[3].name
    /\ ret.value = 2

(***************************************************************************)
(* C7: in a database whose ids are pairwise distinct and whose names are   *)
(* pairwise distinct, for every record r, find_by_id(r.id) succeeds with a *)
(* record named r.name and find_by_name(r.name) succeeds with a record     *)
(* whose id is r.id.                                                       *)
(***************************************************************************)
Unique(functions) ==
    \A j, k \in 1..Len(functions) :
        j # k => /\ functions[j].id # functions[k].id
                 /\ functions[j].name # functions[k].name

C7_InverseLookups ==
    Unique(db.functions) =>
        \A k \in 1..Len(db.functions) :
            LET r == db.functions[k]
            IN  /\ (ret.op = "find_by_id" /\ ret.arg = r.id) =>
                      /\ ret.status = "Ok"
                      /\ db.functions[ret.value].name = r.name
                /\ (ret.op = "find_by_name" /\ ret.arg = r.name) =>
                      /\ ret.status = "Ok"
                      /\ db.functions[ret.value].id = r.id

\* find_by_name found the last of three records with distinct ids and names.
C7_Witness ==
    /\ Unique(db.functions) /\ Len(db.functions) = 3
    /\ ret.op = "find_by_name" /\ ret.arg = db.functions[3].name
    /\ ret.status = "Ok"
    /\ db.functions[ret.value].id = db.functions[3].id

(***************************************************************************)
(* C8: instruction_name returns a non-empty string: the record's name when *)
(* that is non-empty, otherwise "Unknown" followed by the id in decimal.   *)
(***************************************************************************)
C8_DisplayName ==
    (ret.op = "instruction_name") =>
        /\ ret.value # ""
        /\ F.name # "" => ret.value = F.name
        /\ F.name = "" =>
              ret.value = (IF F.id = 0 THEN "Unknown0"
                           ELSE IF F.id = 10 THEN "Unknown10" ELSE "Unknown255")

\* A record without a name and with id 255 is displayed as Unknown255.
C8_Witness ==
    /\ ret.op = "instruction_name"
    /\ F.name = "" /\ F.id = 255
    /\ ret.value = "Unknown255"
====
